---- MODULE Spec2Model ----
(***************************************************************************)
(* Booking lifecycle of the hiring platform: the tables and row-level      *)
(* security policies of supabase/migrations, and the client handlers that  *)
(* issue requests against them (Booking, BookingDetail, WorkerProfile,     *)
(* BookingMessages).                                                       *)
(*                                                                         *)
(* Money is in whole rupees, durations are in whole hours, and the dates   *)
(* of the model lie in one calendar month.  A request is made by an        *)
(* authenticated principal uid (auth.uid() in the policies); a nullable    *)
(* column holds <<>> for NULL and <<v>> for a value.                       *)
(***************************************************************************)
EXTENDS Integers, Sequences, FiniteSets, TLC

VARIABLES
    worker_profiles,        \* table worker_profiles: id -> row
    availability_calendar,  \* table availability_calendar: set of rows
    bookings,               \* table bookings: sequence of rows, the id is the index
    now,                    \* the wall clock: [day, hour]
    detail,                 \* BookingDetail pages: tab -> component state
    form,                   \* the Booking page (the booking form) of one browser
    messages,               \* table messages: sequence of rows, in order of created_at
    chat,                   \* a BookingMessages component: whose it is and what it lists
    reviews,                \* table reviews: sequence of rows, in order of created_at
    direct_messages,        \* table direct_messages: sequence of rows, the id is the index
    dchat,                  \* DirectChat components: tab -> the state of its loadMessages
    rlist,                  \* ReviewsList components: tab -> its props and state
    objects,                \* storage.objects: set of rows, name split in folder and file
    mview,                  \* a mounted BookingMessages: subscription, selects under way, list shown
    profiles,               \* table profiles: principal -> role, NULL before signup
    user_roles,             \* table user_roles: set of rows
    last                    \* the last request made and how the backend answered it

vars ==
    <<worker_profiles, availability_calendar, bookings, now, detail, form, messages,
      chat, reviews, direct_messages, dchat, rlist, objects, mview, profiles,
      user_roles, last>>

----------------------------------------------------------------------------
(* Bounds of the model *)

MaxBookings == 1
MaxDate == 2
MaxMessages == 2
MaxReviews == 2
MaxDirectMessages == 2

(* JS null / undefined where a string is expected *)
NULL == "null"

Users == {"hirer1", "worker1", "worker2"}

(* principals who sign up in the course of a behaviour *)
NewUsers == {"user1", "user2"}
Principals == Users \cup NewUsers
WorkerIds == {"wp1", "wp2"}
Tabs == {"tabA", "tabB"}
Dates == 1..MaxDate

(* values a client may send for bookings.agreed_rate *)
RateInputs == {100, 250}

----------------------------------------------------------------------------
(* Schema *)

(* bookings.status CHECK constraint *)
BookingStatuses == {"pending", "confirmed", "in_progress", "completed", "cancelled"}

(* what a client may send as a status: the allowed ones and one that is not *)
StatusInputs == BookingStatuses \cup {"archived"}

(* availability_calendar.status CHECK constraint *)
AvailabilityStatuses == {"available", "unavailable", "holiday"}

BookingIds == DOMAIN bookings

(* SELECT user_id FROM worker_profiles WHERE id = worker_id *)
WorkerUserIds(worker_id) ==
    {worker_profiles[w].user_id : w \in {x \in WorkerIds : x = worker_id}}

(* the CHECK constraints of a bookings row *)
BookingsRowValid(row) == row.status \in BookingStatuses

----------------------------------------------------------------------------
(* Row-level security policies *)

(* "Users can view own bookings" *)
BookingsSelectPolicy(uid, row) ==
    \/ uid = row.hirer_id
    \/ uid \in WorkerUserIds(row.worker_id)

(* "Hirers can create bookings" *)
BookingsInsertPolicy(uid, row) == uid = row.hirer_id

(* the update policy had it named the worker alone *)
BookingsUpdatePolicy_WorkerOnly(uid, row) ==
    uid \in WorkerUserIds(row.worker_id)

(* "Users can update own bookings": USING; with no WITH CHECK clause the
   USING expression is also applied to the new row *)
BookingsUpdatePolicy(uid, row) ==
    \/ uid = row.hirer_id
    \/ uid \in WorkerUserIds(row.worker_id)

(* CREATE TYPE app_role AS ENUM ('hirer', 'worker'), and user_role alike *)
AppRoles == {"hirer", "worker"}

(* get_user_role: SELECT role FROM user_roles WHERE user_id = _user_id
   LIMIT 1, NULL without a row *)
GetUserRole(uid) ==
    LET rows == {r \in user_roles : r.user_id = uid}
    IN  IF rows = {} THEN NULL ELSE (CHOOSE r \in rows : TRUE).role

(* "Users can update own profile", the policy the later migration drops *)
ProfilesUpdateCheck_OwnProfile(uid, id, role) == uid = id

(* "Users can update own profile except role", USING *)
ProfilesUpdateUsing(uid, id) == uid = id

(* "Users can update own profile except role", WITH CHECK on the new row *)
ProfilesUpdateCheck(uid, id, role) ==
    /\ uid = id
    /\ GetUserRole(uid) # NULL
    /\ role = GetUserRole(uid)

(* user_roles has row-level security enabled and a SELECT policy only: no
   insert, update or delete of a client is admitted *)
UserRolesWritePolicy(uid, row) == FALSE

(* "Workers can update own profile" *)
WorkerProfilesUpdatePolicy(uid, row) == uid = row.user_id

(* "Workers can manage own availability", USING and WITH CHECK *)
AvailabilityManagePolicy(uid, row) ==
    \E w \in WorkerIds : w = row.worker_id /\ worker_profiles[w].user_id = uid

(* EXISTS (SELECT 1 FROM bookings WHERE bookings.id = booking_id AND
   (bookings.hirer_id = auth.uid() OR bookings.worker_id IN
      (SELECT id FROM worker_profiles WHERE user_id = auth.uid()))) *)
InOwnBooking(uid, booking_id) ==
    \E id \in BookingIds :
       /\ id = booking_id
       /\ \/ bookings[id].hirer_id = uid
          \/ bookings[id].worker_id \in {w \in WorkerIds : worker_profiles[w].user_id = uid}

(* "Users can view messages in their bookings" *)
MessagesSelectPolicy(uid, row) ==
    \/ row.sender_id = uid
    \/ InOwnBooking(uid, row.booking_id)

(* the insert policy had it not compared the sender with the caller *)
MessagesInsertPolicy_AnySender(uid, row) == InOwnBooking(uid, row.booking_id)

(* "Users can send messages in their bookings" *)
MessagesInsertPolicy(uid, row) ==
    /\ row.sender_id = uid
    /\ InOwnBooking(uid, row.booking_id)

(* the upload policy had it not compared the folder with the caller *)
StorageInsertPolicy_AnyFolder(uid, row) == row.bucket_id = "chat-files"

(* "Users can upload chat files": (storage.foldername(name))[1] is the
   first folder of the object's name *)
StorageInsertPolicy(uid, row) ==
    /\ row.bucket_id = "chat-files"
    /\ uid = row.folder

(* "Users can view chat files" *)
StorageSelectPolicy(uid, row) == row.bucket_id = "chat-files"

(* "Users can delete own chat files" *)
StorageDeletePolicy(uid, row) ==
    /\ row.bucket_id = "chat-files"
    /\ uid = row.folder

(* "Hirers can update their own reviews": USING only, so the new row is
   held to it as well *)
ReviewsUpdatePolicy(uid, row) == uid = row.hirer_id

(* a policy that lets a sender rewrite and remove the own messages, which
   the migration does not create *)
MessagesWritePolicy_OwnMessages(uid, row) == row.sender_id = uid

(* messages has row-level security enabled and policies FOR SELECT and FOR
   INSERT only: no row is visible to an UPDATE or a DELETE *)
MessagesWritePolicy(uid, row) == FALSE

(* the insert policy of reviews had it not looked at the booking's status *)
ReviewsInsertPolicy_AnyStatus(uid, row) ==
    /\ uid = row.hirer_id
    /\ \E id \in BookingIds : id = row.booking_id /\ bookings[id].hirer_id = uid

(* "Hirers can create reviews for their bookings" *)
ReviewsInsertPolicy(uid, row) ==
    /\ uid = row.hirer_id
    /\ \E id \in BookingIds :
          /\ id = row.booking_id
          /\ bookings[id].hirer_id = uid
          /\ bookings[id].status = "completed"

(* "Users can view messages they sent or received" *)
DirectMessagesSelectPolicy(uid, row) == uid = row.sender_id \/ uid = row.receiver_id

(* "Users can send direct messages" *)
DirectMessagesInsertPolicy(uid, row) == uid = row.sender_id

(* direct_messages has row-level security enabled and no policy FOR UPDATE:
   no row is visible to an UPDATE, whoever sends it *)
DirectMessagesUpdatePolicy(uid, row) == FALSE

----------------------------------------------------------------------------
(* Requests against bookings, as the backend answers them *)

(* what the booking form held when it sent an insert *)
NoCalc ==
    [viaForm |-> FALSE, durationHours |-> 0, hourly_rate |-> 0, daily_rate |-> <<>>,
     agreedRate |-> 0, lookupFailed |-> FALSE, stored |-> NULL]

NoRequest ==
    [op |-> "none", uid |-> NULL, id |-> 0, column |-> NULL, from |-> NULL,
     to |-> NULL, read |-> NULL, result |-> NULL, asHirer |-> FALSE,
     asWorker |-> FALSE, calc |-> NoCalc]

(* a request as `last` records it: who sent it, the stored value before it,
   the value sent, what the sender's page showed (NULL without a page), the
   answer, and what the sender was to the booking when the request arrived *)
Request(op, uid, id, column, from, to, read, result) ==
    [op |-> op, uid |-> uid, id |-> id, column |-> column, from |-> from,
     to |-> to, read |-> read, result |-> result,
     asHirer |-> (id \in BookingIds /\ uid = bookings[id].hirer_id),
     asWorker |-> (id \in BookingIds
                   /\ uid = worker_profiles[bookings[id].worker_id].user_id),
     calc |-> NoCalc]

(* supabase.from("bookings").update({column: value}).eq("id", id) by uid:
   rows the USING clause hides are not matched (no error, nothing written);
   a new row that breaks a CHECK or the policy is an error; else the row is
   written.  Nothing compares the stored row with what the client read. *)
BookingsUpdateResult(uid, id, column, value) ==
    IF id \notin BookingIds \/ ~BookingsUpdatePolicy(uid, bookings[id])
    THEN "no_rows"
    ELSE LET new == [bookings[id] EXCEPT ![column] = value]
         IN  IF ~BookingsRowValid(new) THEN "check_violation"
             ELSE IF ~BookingsUpdatePolicy(uid, new) THEN "rls_violation"
             ELSE "updated"

(* the update as a guard on the stored status would make it: a status is
   written only over pending, so the first of two writes stays *)
BookingsAfterUpdate_FirstWins(uid, id, column, value) ==
    IF /\ BookingsUpdateResult(uid, id, column, value) = "updated"
       /\ (column = "status" => bookings[id].status = "pending")
    THEN [bookings EXCEPT ![id] = [@ EXCEPT ![column] = value]]
    ELSE bookings

BookingsAfterUpdate(uid, id, column, value) ==
    IF BookingsUpdateResult(uid, id, column, value) = "updated"
    THEN [bookings EXCEPT ![id] = [@ EXCEPT ![column] = value]]
    ELSE bookings

(* the insert as a UNIQUE (worker_id, booking_date) would decide it: the
   table has no such constraint *)
BookingsInsertResult_Unique(uid, row) ==
    IF \E i \in BookingIds : /\ bookings[i].worker_id = row.worker_id
                             /\ bookings[i].booking_date = row.booking_date
    THEN "unique_violation"
    ELSE IF ~BookingsRowValid(row) THEN "check_violation"
    ELSE IF ~BookingsInsertPolicy(uid, row) THEN "rls_violation"
    ELSE "inserted"

(* INSERT INTO bookings: the CHECK constraints, then the policy *)
BookingsInsertResult(uid, row) ==
    IF ~BookingsRowValid(row) THEN "check_violation"
    ELSE IF ~BookingsInsertPolicy(uid, row) THEN "rls_violation"
    ELSE "inserted"

(* the error field of the response *)
IsError(result) == result \in {"check_violation", "rls_violation"}

(* supabase.from("bookings").select().eq("id", id) by uid: the rows returned *)
BookingsSelect(table, uid, id) ==
    {table[i] : i \in {j \in DOMAIN table : j = id /\ BookingsSelectPolicy(uid, table[j])}}

(* supabase.from("messages").select().eq("booking_id", bookingId)
   .order("created_at") by uid: the ids of the rows returned, ascending *)
MessagesSelect(uid, bookingId) ==
    {m \in DOMAIN messages :
        messages[m].booking_id = bookingId /\ MessagesSelectPolicy(uid, messages[m])}

----------------------------------------------------------------------------
(* BookingDetail page *)

(* reviews.rating CHECK (rating >= 1 AND rating <= 5) *)
MinRating == 1
MaxRating == 5

(* INSERT INTO reviews: the policy's WITH CHECK, then the CHECK constraint;
   no constraint of the table looks at the reviews already stored *)
ReviewsInsertResult(uid, row) ==
    IF ~ReviewsInsertPolicy(uid, row) THEN "rls_violation"
    ELSE IF ~(row.rating >= MinRating /\ row.rating <= MaxRating) THEN "check_violation"
    ELSE "inserted"

(* supabase.from("reviews").select("*").eq("booking_id", id).maybeSingle():
   the row if there is exactly one, else null (several rows are an error,
   which loadData does not read) *)
ReviewOfBooking(table, id) ==
    LET ids == {i \in DOMAIN table : table[i].booking_id = id}
    IN  IF Cardinality(ids) = 1 THEN <<table[CHOOSE i \in ids : TRUE]>> ELSE <<>>

NoPage ==
    [user |-> NULL, bookingId |-> 0, status |-> NULL, isHirer |-> FALSE,
     worker_id |-> NULL, existingReview |-> <<>>]

(* loadData of a page, against the tables given: a booking that cannot be
   read leaves the page as it was; the review is looked up only for the
   hirer of a completed booking, and else stays what it was *)
LoadData(page, bookingsTable, reviewsTable, uid, id) ==
    LET rows == BookingsSelect(bookingsTable, uid, id)
        row == CHOOSE r \in rows : TRUE
    IN  IF rows = {} THEN page
        ELSE [user |-> uid, bookingId |-> id, status |-> row.status,
              isHirer |-> (uid = row.hirer_id), worker_id |-> row.worker_id,
              existingReview |->
                 IF row.status = "completed" /\ row.hirer_id = uid
                 THEN ReviewOfBooking(reviewsTable, id)
                 ELSE page.existingReview]

(* canReview: the page shows the review form *)
CanReview(page) ==
    /\ page # NoPage
    /\ page.isHirer
    /\ page.status = "completed"
    /\ page.existingReview = <<>>

(* the buttons the page renders: Accept and Decline while it shows pending,
   Mark as Completed while it shows confirmed, none of them to the hirer *)
ButtonShown(page, newStatus) ==
    /\ page # NoPage
    /\ ~page.isHirer
    /\ \/ page.status = "pending" /\ newStatus \in {"confirmed", "cancelled"}
       \/ page.status = "confirmed" /\ newStatus = "completed"

----------------------------------------------------------------------------
(* Booking page: the form a hirer books a worker with *)

(* a calendar day as the Date the date picker yields: local midnight *)
Midnight(day) == [day |-> day, hour |-> 0]

(* a < b on Dates *)
Before(a, b) == a.day < b.day \/ (a.day = b.day /\ a.hour < b.hour)

(* format(date, "yyyy-MM-dd"): the day, without the time of day *)
FormatDate(date) == date.day

(* new Date(new Date().setHours(0, 0, 0, 0)) *)
StartOfToday == [day |-> now.day, hour |-> 0]

(* JS truthiness of a number that may be null: null and 0 are falsy *)
Truthy(n) == n # <<>> /\ n[1] # 0

(* availability.find((a) => a.date === dateStr), undefined as the empty set *)
GetAvailabilityForDate(availability, date) ==
    {a \in availability : a.date = FormatDate(date)}

(* the past-date test had it compared with the current instant *)
IsDateBookable_NoStartOfDay(availability, date) ==
    IF Before(date, now) THEN FALSE
    ELSE LET avail == GetAvailabilityForDate(availability, date)
         IN  IF avail = {} THEN TRUE
             ELSE \A a \in avail : a.status = "available"

(* isDateBookable *)
IsDateBookable(availability, date) ==
    IF Before(date, StartOfToday) THEN FALSE
    ELSE LET avail == GetAvailabilityForDate(availability, date)
         IN  IF avail = {} THEN TRUE
             ELSE \A a \in avail : a.status = "available"

(* bookingSchema.durationHours: 0, or a number from the minimum (half an
   hour, one hour in the model's whole hours) to MaxDurationHours *)
MaxDurationHours == 24
DurationValid(durationHours) ==
    durationHours = 0 \/ (1 <= durationHours /\ durationHours <= MaxDurationHours)

(* the hours of a full day *)
FullDayHours == 8

(* the daily rate had it been taken whenever it is not null *)
AgreedRate_DailyWhenNotNull(durationHours, worker) ==
    IF durationHours # 0 THEN durationHours * worker.hourly_rate
    ELSE IF worker.daily_rate # <<>> THEN worker.daily_rate[1]
    ELSE worker.hourly_rate * FullDayHours

(* agreedRate of handleSubmit:
   durationHours ? durationHours * worker.hourly_rate
                 : worker.daily_rate || worker.hourly_rate * 8 *)
AgreedRate(durationHours, worker) ==
    IF Truthy(<<durationHours>>) THEN durationHours * worker.hourly_rate
    ELSE IF Truthy(worker.daily_rate) THEN worker.daily_rate[1]
    ELSE worker.hourly_rate * FullDayHours

(* select * from availability_calendar where worker_id = workerId (and the
   date in the month shown); the select policy shows every row *)
AvailabilityOfWorker(workerId) ==
    {a \in availability_calendar : a.worker_id = workerId}

(* select status ... eq worker_id, eq date, maybeSingle(): null or the row *)
AvailabilityLookup(workerId, dateStr) ==
    LET rows == {a \in availability_calendar :
                    a.worker_id = workerId /\ a.date = dateStr}
    IN  IF rows = {} THEN <<>> ELSE <<(CHOOSE a \in rows : TRUE).status>>

NoForm ==
    [user |-> NULL, workerId |-> NULL, worker |-> <<>>, availability |-> {},
     bookingDate |-> <<>>, durationHours |-> 0, pc |-> "closed",
     availData |-> <<>>, lookupFailed |-> FALSE, stored |-> NULL]

(* CONSTRAINT different_users CHECK (sender_id != receiver_id) *)
DirectMessagesRowValid(row) == row.sender_id # row.receiver_id

(* the select of loadMessages in the DirectChat of currentUserId with
   otherUserId: the ids of the messages between the two *)
DirectMessagesSelect(currentUserId, otherUserId) ==
    {m \in DOMAIN direct_messages :
        /\ DirectMessagesSelectPolicy(currentUserId, direct_messages[m])
        /\ \/ /\ direct_messages[m].sender_id = currentUserId
              /\ direct_messages[m].receiver_id = otherUserId
           \/ /\ direct_messages[m].sender_id = otherUserId
              /\ direct_messages[m].receiver_id = currentUserId}

(* unreadMessages of loadMessages *)
UnreadMessages(currentUserId, ids) ==
    {m \in ids : direct_messages[m].receiver_id = currentUserId
                    /\ direct_messages[m].read_at = <<>>}

(* supabase.from("direct_messages").update({read_at: value}).in("id", ids)
   by uid: the rows the policy shows are written, the others are skipped
   without an error *)
DirectMessagesAfterUpdate(uid, ids, value) ==
    [m \in DOMAIN direct_messages |->
        IF m \in ids /\ DirectMessagesUpdatePolicy(uid, direct_messages[m])
        THEN [direct_messages[m] EXCEPT !.read_at = value]
        ELSE direct_messages[m]]

(* supabase.storage.from('chat-files').upload(name, file) by uid, without
   upsert: the policy, then the name must be new *)
StorageUploadResult(uid, row) ==
    IF ~StorageInsertPolicy(uid, row) THEN "rls_violation"
    ELSE IF row \in objects THEN "duplicate"
    ELSE "uploaded"

(* BookingMessages before it is mounted: no channel, no select under way,
   useState([]) *)
NoMessageView ==
    [user |-> NULL, bookingId |-> 0, subscribed |-> FALSE, requests |-> 0,
     responses |-> {}, shown |-> {}]

(* the INSERT event of the realtime publication of messages, as it reaches
   a mounted BookingMessages: once the channel is subscribed, an inserted
   row of the booking the channel filters on, visible to the subscriber,
   makes the callback call loadMessages *)
Notified(view, row, inserted) ==
    IF /\ inserted
       /\ view.user # NULL /\ view.subscribed
       /\ row.booking_id = view.bookingId
       /\ MessagesSelectPolicy(view.user, row)
    THEN [view EXCEPT !.requests = @ + 1]
    ELSE view

(* loadUnreadCounts of useUnreadMessages for currentUserId: the number of
   messages to currentUserId with read_at null that sender sent *)
UnreadCount(currentUserId, sender) ==
    Cardinality({m \in DOMAIN direct_messages :
                    /\ DirectMessagesSelectPolicy(currentUserId, direct_messages[m])
                    /\ direct_messages[m].receiver_id = currentUserId
                    /\ direct_messages[m].read_at = <<>>
                    /\ direct_messages[m].sender_id = sender})

(* DirectChat before its first load *)
NoDirectChat ==
    [user |-> NULL, other |-> NULL, messages |-> {}, unread |-> {}, pc |-> "closed",
     markedAt |-> <<>>]

(* ReviewsList before it is mounted, and its state at mount: useState([])
   and useState(0) *)
NoReviewsList ==
    [workerId |-> NULL, reviews |-> <<>>, averageRating |-> 0, loading |-> TRUE]

RECURSIVE SumRatings(_)
(* data.reduce((sum, review) => sum + review.rating, 0) *)
SumRatings(data) ==
    IF data = <<>> THEN 0 ELSE Head(data).rating + SumRatings(Tail(data))

(* Number((sum / data.length).toFixed(1)) in tenths: the tenth nearest to
   the quotient, the larger one when two are equally near *)
ToFixed1(sum, length) == (20 * sum + length) \div (2 * length)

(* loadReviews of a component in state `state` whose workerId prop is
   workerId: reviews and averageRating are set only when the select
   returns rows *)
LoadReviews(state, table, workerId) ==
    LET data == SelectSeq(table, LAMBDA r : r.worker_id = workerId)
    IN  IF Len(data) > 0
        THEN [workerId |-> workerId, reviews |-> data,
              averageRating |-> ToFixed1(SumRatings(data), Len(data)),
              loading |-> FALSE]
        ELSE [state EXCEPT !.workerId = workerId, !.loading = FALSE]

(* what the rendered ReviewsList reports: the average when it holds
   reviews, else nothing ("No reviews yet") *)
ReportedRating(state) ==
    IF Len(state.reviews) > 0 THEN <<state.averageRating>> ELSE <<>>

(* handle_new_user with the role hint of the signup metadata, NULL when it
   is omitted: the role stored, or "error" when the cast to app_role raises
   and the signup is rolled back *)
HandleNewUser(hint) ==
    LET user_role_text == IF hint = NULL THEN "hirer" ELSE hint
    IN  IF user_role_text \in AppRoles THEN user_role_text ELSE "error"

(* UPDATE profiles SET role = role WHERE id = id, sent by uid *)
ProfilesUpdateResult(uid, id, role) ==
    IF profiles[id] = NULL \/ ~ProfilesUpdateUsing(uid, id) THEN "no_rows"
    ELSE IF role \notin AppRoles THEN "invalid_enum"
    ELSE IF ~ProfilesUpdateCheck(uid, id, role) THEN "rls_violation"
    ELSE "updated"

(* BookingMessages before its first load *)
NoChat == [user |-> NULL, bookingId |-> 0, messages |-> {}]

----------------------------------------------------------------------------
Init ==
    /\ worker_profiles =
         [w \in WorkerIds |->
            [user_id |-> IF w = "wp1" THEN "worker1" ELSE "worker2",
             hourly_rate |-> 100, daily_rate |-> <<>>,
             \* rating DECIMAL(3, 2) DEFAULT 0.00, in hundredths
             rating |-> 0]]
    /\ availability_calendar = {}
    /\ bookings = <<>>
    /\ now = [day |-> 1, hour |-> 0]
    /\ detail = [t \in Tabs |-> NoPage]
    /\ form = NoForm
    /\ messages = <<>>
    /\ chat = NoChat
    /\ reviews = <<>>
    /\ direct_messages = <<>>
    /\ dchat = [t \in Tabs |-> NoDirectChat]
    /\ rlist = [t \in Tabs |-> NoReviewsList]
    /\ objects = {}
    /\ mview = NoMessageView
    /\ profiles = [u \in Principals |->
                     IF u = "hirer1" THEN "hirer"
                     ELSE IF u \in Users THEN "worker" ELSE NULL]
    /\ user_roles = {[user_id |-> u,
                       role |-> IF u = "hirer1" THEN "hirer" ELSE "worker"] : u \in Users}
    /\ last = NoRequest

(* INSERT INTO bookings by uid, any columns the client chooses, while the
   table holds fewer than cap rows *)
BookingsInsertUpTo(cap, uid, row) ==
    /\ Len(bookings) < cap
    /\ bookings' = IF BookingsInsertResult(uid, row) = "inserted"
                   THEN Append(bookings, row) ELSE bookings
    /\ last' = Request("insert", uid, Len(bookings) + 1, NULL, NULL, row.status,
                        NULL, BookingsInsertResult(uid, row))
    /\ UNCHANGED <<worker_profiles, availability_calendar, now, detail, form,
                   messages, chat, reviews, direct_messages, dchat, profiles,
                   user_roles, rlist, objects, mview>>

BookingsInsert(uid, row) == BookingsInsertUpTo(MaxBookings, uid, row)

(* UPDATE bookings SET column = value WHERE id = id, sent by uid *)
BookingsUpdate(uid, id, column, value) ==
    /\ id \in BookingIds
    /\ bookings' = BookingsAfterUpdate(uid, id, column, value)
    /\ last' = Request("update", uid, id, column, bookings[id][column], value,
                        NULL, BookingsUpdateResult(uid, id, column, value))
    /\ UNCHANGED <<worker_profiles, availability_calendar, now, detail, form,
                   messages, chat, reviews, direct_messages, dchat, profiles,
                   user_roles, rlist, objects, mview>>

(* a user opens /booking-detail/:bookingId in a tab: useEffect -> loadData *)
OpenBookingDetail(t, uid, id) ==
    /\ id \in BookingIds
    /\ detail' = [detail EXCEPT ![t] = LoadData(NoPage, bookings, reviews, uid, id)]
    /\ UNCHANGED <<worker_profiles, availability_calendar, bookings, now, form, last,
                   messages, chat, reviews, direct_messages, dchat, profiles,
                   user_roles, rlist, objects, mview>>

(* handleStatusUpdate(newStatus), reached through a button of the page *)
HandleStatusUpdate(t, newStatus) ==
    LET page == detail[t]
        result == BookingsUpdateResult(page.user, page.bookingId, "status", newStatus)
        after == BookingsAfterUpdate(page.user, page.bookingId, "status", newStatus)
    IN  /\ ButtonShown(page, newStatus)
        /\ bookings' = after
        /\ last' = Request("update", page.user, page.bookingId, "status",
                            bookings[page.bookingId].status, newStatus,
                            page.status, result)
        \* on success loadData() runs again
        /\ detail' = IF IsError(result) THEN detail
                     ELSE [detail EXCEPT ![t] =
                             LoadData(page, after, reviews, page.user, page.bookingId)]
        /\ UNCHANGED <<worker_profiles, availability_calendar, now, form, messages,
                       chat, reviews, direct_messages, dchat, profiles, user_roles,
                       rlist, objects, mview>>

(* UPDATE worker_profiles SET column = value WHERE id = w, sent by uid *)
WorkerProfilesUpdate(uid, w, column, value) ==
    /\ worker_profiles' =
         IF WorkerProfilesUpdatePolicy(uid, worker_profiles[w])
         THEN [worker_profiles EXCEPT ![w] = [@ EXCEPT ![column] = value]]
         ELSE worker_profiles
    /\ UNCHANGED <<availability_calendar, bookings, now, detail, form, last, messages,
                   chat, reviews, direct_messages, dchat, profiles, user_roles, rlist,
                   objects, mview>>

(* handleSetAvailability of the worker's own page, its list of the month
   up to date: update the row of the date if there is one, else insert it *)
HandleSetAvailability(uid, w, date, availabilityStatus) ==
    LET new == [worker_id |-> w, date |-> date, status |-> availabilityStatus]
        existing == {a \in availability_calendar : a.worker_id = w /\ a.date = date}
    IN  /\ availability_calendar' =
              IF AvailabilityManagePolicy(uid, new)
              THEN (availability_calendar \ existing) \cup {new}
              ELSE availability_calendar
        /\ UNCHANGED <<worker_profiles, bookings, now, detail, form, last, messages,
                       chat, reviews, direct_messages, dchat, profiles, user_roles,
                       rlist, objects, mview>>

(* time passes: noon, then the next midnight *)
Tick ==
    /\ now.day < MaxDate \/ now.hour = 0
    /\ now' = IF now.hour = 0 THEN [now EXCEPT !.hour = 12]
              ELSE [day |-> now.day + 1, hour |-> 0]
    /\ UNCHANGED <<worker_profiles, availability_calendar, bookings, detail, form,
                   last, messages, chat, reviews, direct_messages, dchat, profiles,
                   user_roles, rlist, objects, mview>>

(* a user opens /booking/:workerId: loadWorkerData and loadAvailability *)
OpenBookingForm(uid, w) ==
    /\ form' = [NoForm EXCEPT
                  !.user = uid, !.workerId = w, !.pc = "idle",
                  !.worker = <<[hourly_rate |-> worker_profiles[w].hourly_rate,
                                daily_rate |-> worker_profiles[w].daily_rate]>>,
                  !.availability = AvailabilityOfWorker(w)]
    /\ UNCHANGED <<worker_profiles, availability_calendar, bookings, now, detail,
                   last, messages, chat, reviews, direct_messages, dchat, profiles,
                   user_roles, rlist, objects, mview>>

(* loadAvailability again, as a change of the month shown triggers it *)
LoadAvailability ==
    /\ form.pc = "idle"
    /\ form' = [form EXCEPT !.availability = AvailabilityOfWorker(form.workerId)]
    /\ UNCHANGED <<worker_profiles, availability_calendar, bookings, now, detail,
                   last, messages, chat, reviews, direct_messages, dchat, profiles,
                   user_roles, rlist, objects, mview>>

(* the date picker: a day isDateBookable rejects is disabled *)
SelectDate(day) ==
    /\ form.pc = "idle"
    /\ IsDateBookable(form.availability, Midnight(day))
    /\ form' = [form EXCEPT !.bookingDate = <<day>>]
    /\ UNCHANGED <<worker_profiles, availability_calendar, bookings, now, detail,
                   last, messages, chat, reviews, direct_messages, dchat, profiles,
                   user_roles, rlist, objects, mview>>

(* the duration field *)
SetDuration(durationHours) ==
    /\ form.pc = "idle"
    /\ form' = [form EXCEPT !.durationHours = durationHours]
    /\ UNCHANGED <<worker_profiles, availability_calendar, bookings, now, detail,
                   last, messages, chat, reviews, direct_messages, dchat, profiles,
                   user_roles, rlist, objects, mview>>

(* handleSubmit up to the answer of the availability lookup: the checks
   that return early leave the form as it is; the lookup may fail, and its
   error is not read: availData is null then *)
HandleSubmitLookup(descriptionValid, failed) ==
    /\ form.pc = "idle"
    /\ form.bookingDate # <<>>
    /\ IsDateBookable(form.availability, Midnight(form.bookingDate[1]))
    /\ DurationValid(form.durationHours) /\ descriptionValid
    /\ LET answer == AvailabilityLookup(form.workerId,
                                        FormatDate(Midnight(form.bookingDate[1])))
       IN  form' = [form EXCEPT
                      !.pc = "lookup_done",
                      !.availData = IF failed THEN <<>> ELSE answer,
                      !.lookupFailed = failed,
                      !.stored = IF answer = <<>> THEN "none" ELSE answer[1]]
    /\ UNCHANGED <<worker_profiles, availability_calendar, bookings, now, detail,
                   last, messages, chat, reviews, direct_messages, dchat, profiles,
                   user_roles, rlist, objects, mview>>

(* handleSubmit from the answer of the lookup on: give up if it names a
   status other than available, else compute the rate and insert; the
   insert happens while the table holds fewer than cap rows *)
HandleSubmitInsertUpTo(cap) ==
    /\ form.pc = "lookup_done"
    /\ IF form.availData # <<>> /\ form.availData[1] # "available"
       THEN /\ form' = [form EXCEPT !.pc = "idle"]
            /\ UNCHANGED <<bookings, last>>
       ELSE LET agreedRate == AgreedRate(form.durationHours, form.worker[1])
                row == [hirer_id |-> form.user, worker_id |-> form.workerId,
                        booking_date |-> FormatDate(Midnight(form.bookingDate[1])),
                        duration_hours |-> IF form.durationHours = 0 THEN <<>>
                                           ELSE <<form.durationHours>>,
                        agreed_rate |-> agreedRate, status |-> "pending"]
                result == BookingsInsertResult(form.user, row)
            IN  /\ Len(bookings) < cap
                /\ bookings' = IF result = "inserted" THEN Append(bookings, row)
                               ELSE bookings
                /\ last' = [Request("insert", form.user, Len(bookings) + 1, NULL,
                                    NULL, row.status, NULL, result)
                              EXCEPT !.calc =
                                [viaForm |-> TRUE,
                                 durationHours |-> form.durationHours,
                                 hourly_rate |-> form.worker[1].hourly_rate,
                                 daily_rate |-> form.worker[1].daily_rate,
                                 agreedRate |-> agreedRate,
                                 lookupFailed |-> form.lookupFailed,
                                 stored |-> form.stored]]
                \* navigate("/dashboard") on success
                /\ form' = IF result = "inserted" THEN NoForm
                           ELSE [form EXCEPT !.pc = "idle"]
    /\ UNCHANGED <<worker_profiles, availability_calendar, now, detail, messages,
                   chat, reviews, direct_messages, dchat, profiles, user_roles, rlist,
                   objects, mview>>

(* INSERT INTO messages: the policy's WITH CHECK on the new row *)
MessagesInsertResult(uid, row) ==
    IF MessagesInsertPolicy(uid, row) THEN "inserted" ELSE "rls_violation"

(* INSERT INTO messages by uid; handleSendMessage sends such a row with
   sender_id the current user *)
MessagesInsert(uid, row) ==
    /\ Len(messages) < MaxMessages
    /\ row.booking_id \in BookingIds
    /\ messages' = IF MessagesInsertResult(uid, row) = "inserted"
                   THEN Append(messages, row) ELSE messages
    /\ last' = Request("message", uid, row.booking_id, "sender_id", NULL,
                        row.sender_id, NULL, MessagesInsertResult(uid, row))
    /\ mview' = Notified(mview, row, MessagesInsertResult(uid, row) = "inserted")
    /\ UNCHANGED <<worker_profiles, availability_calendar, bookings, now, detail,
                   form, chat, reviews, direct_messages, dchat, profiles, user_roles,
                   rlist, objects>>

(* UPDATE messages SET column = value WHERE id = m, sent by uid: rows the
   policies hide are not matched *)
MessagesUpdate(uid, m, column, value) ==
    /\ m \in DOMAIN messages
    /\ messages' = IF MessagesWritePolicy(uid, messages[m])
                   THEN [messages EXCEPT ![m] = [@ EXCEPT ![column] = value]]
                   ELSE messages
    /\ last' = [NoRequest EXCEPT
                  !.op = "message_update", !.uid = uid, !.id = m, !.column = column,
                  !.result = IF MessagesWritePolicy(uid, messages[m])
                             THEN "updated" ELSE "no_rows"]
    /\ UNCHANGED <<worker_profiles, availability_calendar, bookings, now, detail,
                   form, chat, reviews, direct_messages, dchat, profiles, user_roles,
                   rlist, objects, mview>>

(* DELETE FROM messages WHERE id = m, sent by uid *)
MessagesDelete(uid, m) ==
    /\ m \in DOMAIN messages
    /\ messages' = IF MessagesWritePolicy(uid, messages[m])
                   THEN SubSeq(messages, 1, m - 1) \o SubSeq(messages, m + 1, Len(messages))
                   ELSE messages
    /\ last' = [NoRequest EXCEPT
                  !.op = "message_delete", !.uid = uid, !.id = m,
                  !.result = IF MessagesWritePolicy(uid, messages[m])
                             THEN "deleted" ELSE "no_rows"]
    /\ UNCHANGED <<worker_profiles, availability_calendar, bookings, now, detail,
                   form, chat, reviews, direct_messages, dchat, profiles, user_roles,
                   rlist, objects, mview>>

(* BookingMessages of uid is mounted for a booking: the effect calls
   loadMessages and asks for the channel, which is not yet subscribed *)
MountMessages(uid, bookingId) ==
    /\ mview.user = NULL
    /\ bookingId \in BookingIds
    /\ mview' = [NoMessageView EXCEPT
                   !.user = uid, !.bookingId = bookingId, !.requests = 1]
    /\ UNCHANGED <<worker_profiles, availability_calendar, bookings, now, detail,
                   form, messages, chat, reviews, direct_messages, dchat, profiles,
                   user_roles, rlist, objects, last>>

(* the channel of the mounted BookingMessages becomes subscribed *)
ChannelSubscribed ==
    /\ mview.user # NULL /\ ~mview.subscribed
    /\ mview' = [mview EXCEPT !.subscribed = TRUE]
    /\ UNCHANGED <<worker_profiles, availability_calendar, bookings, now, detail,
                   form, messages, chat, reviews, direct_messages, dchat, profiles,
                   user_roles, rlist, objects, last>>

(* the database answers one select of loadMessages with the rows stored at
   that moment; the answer is on its way *)
AnswerSelect ==
    /\ mview.requests > 0
    /\ mview' = [mview EXCEPT
                   !.requests = @ - 1,
                   !.responses = @ \cup {MessagesSelect(mview.user, mview.bookingId)}]
    /\ UNCHANGED <<worker_profiles, availability_calendar, bookings, now, detail,
                   form, messages, chat, reviews, direct_messages, dchat, profiles,
                   user_roles, rlist, objects, last>>

(* an answer arrives, in any order: setMessages(data) *)
ReceiveAnswer(data) ==
    /\ data \in mview.responses
    /\ mview' = [mview EXCEPT !.responses = @ \ {data}, !.shown = data]
    /\ UNCHANGED <<worker_profiles, availability_calendar, bookings, now, detail,
                   form, messages, chat, reviews, direct_messages, dchat, profiles,
                   user_roles, rlist, objects, last>>

(* loadMessages of the BookingMessages of user uid for a booking *)
LoadMessages(uid, bookingId) ==
    /\ bookingId \in BookingIds
    /\ chat' = [user |-> uid, bookingId |-> bookingId,
                messages |-> MessagesSelect(uid, bookingId)]
    /\ UNCHANGED <<worker_profiles, availability_calendar, bookings, now, detail,
                   form, messages, last, reviews, direct_messages, dchat, profiles,
                   user_roles, rlist, objects, mview>>

(* INSERT INTO reviews by uid, any columns the client chooses *)
ReviewsInsert(uid, row) ==
    /\ Len(reviews) < MaxReviews
    /\ row.booking_id \in BookingIds
    /\ reviews' = IF ReviewsInsertResult(uid, row) = "inserted"
                  THEN Append(reviews, row) ELSE reviews
    /\ last' = Request("review", uid, row.booking_id, "hirer_id", NULL, row.hirer_id,
                        NULL, ReviewsInsertResult(uid, row))
    /\ UNCHANGED <<worker_profiles, availability_calendar, bookings, now, detail,
                   form, messages, chat, direct_messages, dchat, profiles, user_roles,
                   rlist, objects, mview>>

HandleSubmitInsert == HandleSubmitInsertUpTo(MaxBookings)

(* UPDATE reviews SET column = value WHERE id = r, sent by uid: a row the
   policy hides is not matched; the new row must pass the policy and the
   CHECK on rating *)
ReviewsUpdateResult(uid, r, column, value) ==
    LET new == [reviews[r] EXCEPT ![column] = value]
    IN  IF ~ReviewsUpdatePolicy(uid, reviews[r]) THEN "no_rows"
        ELSE IF ~ReviewsUpdatePolicy(uid, new) THEN "rls_violation"
        ELSE IF ~(new.rating >= MinRating /\ new.rating <= MaxRating)
        THEN "check_violation"
        ELSE "updated"

ReviewsUpdate(uid, r, column, value) ==
    /\ r \in DOMAIN reviews
    /\ reviews' = IF ReviewsUpdateResult(uid, r, column, value) = "updated"
                  THEN [reviews EXCEPT ![r] = [@ EXCEPT ![column] = value]]
                  ELSE reviews
    /\ last' = [NoRequest EXCEPT
                  !.op = "review_update", !.uid = uid, !.id = r, !.column = column,
                  !.result = ReviewsUpdateResult(uid, r, column, value)]
    /\ UNCHANGED <<worker_profiles, availability_calendar, bookings, now, detail,
                   form, messages, chat, direct_messages, dchat, profiles, user_roles,
                   rlist, objects, mview>>

(* ReviewForm.handleSubmit of the form a page shows: the insert, and on
   success onReviewSubmitted, which is loadData *)
ReviewFormSubmit(t, rating) ==
    LET page == detail[t]
        row == [booking_id |-> page.bookingId, worker_id |-> page.worker_id,
                hirer_id |-> page.user, rating |-> rating]
        result == ReviewsInsertResult(page.user, row)
        after == IF result = "inserted" THEN Append(reviews, row) ELSE reviews
    IN  /\ CanReview(page)
        /\ rating # 0
        /\ Len(reviews) < MaxReviews
        /\ reviews' = after
        /\ last' = [Request("review", page.user, page.bookingId, "hirer_id", NULL,
                             page.user, NULL, result)
                      EXCEPT !.read = page.status]
        /\ detail' = IF IsError(result) THEN detail
                     ELSE [detail EXCEPT ![t] =
                             LoadData(page, bookings, after, page.user, page.bookingId)]
        /\ UNCHANGED <<worker_profiles, availability_calendar, bookings, now, form,
                       messages, chat, direct_messages, dchat, profiles, user_roles,
                       rlist, objects, mview>>

(* INSERT INTO direct_messages by uid; handleSendMessage of DirectChat sends
   sender_id the current user and no read_at *)
DirectMessagesInsert(uid, row) ==
    /\ Len(direct_messages) < MaxDirectMessages
    /\ direct_messages' =
          IF DirectMessagesInsertPolicy(uid, row) /\ DirectMessagesRowValid(row)
          THEN Append(direct_messages, row) ELSE direct_messages
    /\ UNCHANGED <<worker_profiles, availability_calendar, bookings, now, detail,
                   form, messages, chat, reviews, dchat, last, profiles, user_roles,
                   rlist, objects, mview>>

(* UPDATE direct_messages SET read_at = value WHERE id IN ids, sent by uid *)
DirectMessagesUpdate(uid, ids, value) ==
    /\ direct_messages' = DirectMessagesAfterUpdate(uid, ids, value)
    /\ UNCHANGED <<worker_profiles, availability_calendar, bookings, now, detail,
                   form, messages, chat, reviews, dchat, last, profiles, user_roles,
                   rlist, objects, mview>>

(* loadMessages of a DirectChat up to the answer of its select, on mount or
   on a realtime insert: the messages are shown and the unread ones noted *)
LoadDirectMessages(t, currentUserId, otherUserId) ==
    LET ids == DirectMessagesSelect(currentUserId, otherUserId)
    IN  /\ currentUserId # otherUserId
        /\ dchat' = [dchat EXCEPT ![t] =
                       [user |-> currentUserId, other |-> otherUserId,
                        messages |-> ids,
                        unread |-> UnreadMessages(currentUserId, ids),
                        pc |-> "selected", markedAt |-> <<>>]]
        /\ UNCHANGED <<worker_profiles, availability_calendar, bookings, now, detail,
                       form, messages, chat, reviews, direct_messages, last, profiles,
                       user_roles, rlist, objects, mview>>

(* the rest of loadMessages: with unread messages, the update that marks
   them read at the current time; its answer is not read *)
MarkMessagesRead(t) ==
    LET c == dchat[t]
    IN  /\ c.pc = "selected"
        /\ direct_messages' =
              IF c.unread = {} THEN direct_messages
              ELSE DirectMessagesAfterUpdate(c.user, c.unread, <<now>>)
        /\ dchat' = [dchat EXCEPT ![t] =
                       [c EXCEPT !.pc = "done",
                                 !.markedAt = IF c.unread = {} THEN <<>> ELSE <<now>>]]
        /\ UNCHANGED <<worker_profiles, availability_calendar, bookings, now, detail,
                       form, messages, chat, reviews, last, profiles, user_roles,
                       rlist, objects, mview>>

(* an upload to the bucket chat-files under folder/file, sent by uid *)
StorageUpload(uid, folder, file) ==
    LET row == [bucket_id |-> "chat-files", folder |-> folder, file |-> file]
    IN  /\ objects' = IF StorageUploadResult(uid, row) = "uploaded"
                      THEN objects \cup {row} ELSE objects
        /\ last' = [NoRequest EXCEPT
                      !.op = "upload", !.uid = uid, !.column = folder, !.to = file,
                      !.result = StorageUploadResult(uid, row)]
        /\ UNCHANGED <<worker_profiles, availability_calendar, bookings, now, detail,
                       form, messages, chat, reviews, direct_messages, dchat,
                       profiles, user_roles, rlist, mview>>

(* the removal of folder/file from chat-files, sent by uid: an object the
   policy hides is not matched and nothing is reported *)
StorageRemove(uid, folder, file) ==
    LET row == [bucket_id |-> "chat-files", folder |-> folder, file |-> file]
        found == row \in objects /\ StorageDeletePolicy(uid, row)
    IN  /\ objects' = IF found THEN objects \ {row} ELSE objects
        /\ last' = [NoRequest EXCEPT
                      !.op = "remove", !.uid = uid, !.column = folder, !.to = file,
                      !.result = IF found THEN "removed" ELSE "no_rows"]
        /\ UNCHANGED <<worker_profiles, availability_calendar, bookings, now, detail,
                       form, messages, chat, reviews, direct_messages, dchat,
                       profiles, user_roles, rlist, mview>>

(* the download of folder/file from chat-files by the signed-in uid *)
StorageDownload(uid, folder, file) ==
    LET row == [bucket_id |-> "chat-files", folder |-> folder, file |-> file]
    IN  /\ last' = [NoRequest EXCEPT
                      !.op = "download", !.uid = uid, !.column = folder, !.to = file,
                      !.result = IF row \in objects /\ StorageSelectPolicy(uid, row)
                                 THEN "read" ELSE "not_found"]
        /\ UNCHANGED <<worker_profiles, availability_calendar, bookings, now, detail,
                       form, messages, chat, reviews, direct_messages, dchat,
                       profiles, user_roles, rlist, objects, mview>>

(* handleSendMessage of the DirectChat of currentUserId with otherUserId
   with a file selected: uploadFile stores it as currentUserId/file and
   throws on an error; then the message with the file's URL is inserted *)
HandleSendFile(currentUserId, otherUserId, file) ==
    LET object == [bucket_id |-> "chat-files", folder |-> currentUserId, file |-> file]
        uploaded == StorageUploadResult(currentUserId, object)
        row == [sender_id |-> currentUserId, receiver_id |-> otherUserId,
                read_at |-> <<>>, file_url |-> <<object>>]
    IN  /\ Len(direct_messages) < MaxDirectMessages
        /\ objects' = IF uploaded = "uploaded" THEN objects \cup {object} ELSE objects
        /\ direct_messages' =
              IF /\ uploaded = "uploaded"
                 /\ DirectMessagesInsertPolicy(currentUserId, row)
                 /\ DirectMessagesRowValid(row)
              THEN Append(direct_messages, row) ELSE direct_messages
        /\ last' = [NoRequest EXCEPT
                      !.op = "upload", !.uid = currentUserId, !.column = currentUserId,
                      !.to = file, !.result = uploaded]
        /\ UNCHANGED <<worker_profiles, availability_calendar, bookings, now, detail,
                       form, messages, chat, reviews, dchat, profiles, user_roles,
                       rlist, mview>>

(* a ReviewsList is mounted in tab t for workerId: fresh state, then the
   effect runs loadReviews *)
MountReviewsList(t, workerId) ==
    /\ rlist' = [rlist EXCEPT ![t] = LoadReviews(NoReviewsList, reviews, workerId)]
    /\ UNCHANGED <<worker_profiles, availability_calendar, bookings, now, detail,
                   form, messages, chat, reviews, direct_messages, dchat, profiles,
                   user_roles, last, objects, mview>>

(* the page of tab t stays mounted while its route parameter changes: the
   workerId prop changes and the effect runs loadReviews on the state the
   component holds *)
ChangeWorkerId(t, workerId) ==
    /\ rlist[t].workerId \notin {NULL, workerId}
    /\ rlist' = [rlist EXCEPT ![t] = LoadReviews(rlist[t], reviews, workerId)]
    /\ UNCHANGED <<worker_profiles, availability_calendar, bookings, now, detail,
                   form, messages, chat, reviews, direct_messages, dchat, profiles,
                   user_roles, last, objects, mview>>

(* supabase.auth.signUp with a role hint in the metadata: the trigger
   handle_new_user creates the profile and the user_roles row, or fails *)
SignUp(id, hint) ==
    /\ profiles[id] = NULL
    /\ IF HandleNewUser(hint) = "error"
       THEN UNCHANGED <<profiles, user_roles>>
       ELSE /\ profiles' = [profiles EXCEPT ![id] = HandleNewUser(hint)]
            /\ user_roles' = user_roles \cup
                                {[user_id |-> id, role |-> HandleNewUser(hint)]}
    /\ last' = [NoRequest EXCEPT
                  !.op = "signup", !.uid = id, !.to = hint,
                  !.result = IF HandleNewUser(hint) = "error" THEN "error"
                             ELSE "created"]
    /\ UNCHANGED <<worker_profiles, availability_calendar, bookings, now, detail,
                   form, messages, chat, reviews, direct_messages, dchat, rlist,
                   objects, mview>>

(* UPDATE profiles SET role = role WHERE id = id, sent by uid *)
ProfilesUpdate(uid, id, role) ==
    /\ profiles[uid] # NULL
    /\ profiles' = IF ProfilesUpdateResult(uid, id, role) = "updated"
                   THEN [profiles EXCEPT ![id] = role] ELSE profiles
    /\ last' = [NoRequest EXCEPT
                  !.op = "profile_update", !.uid = uid, !.column = id,
                  !.from = profiles[id], !.to = role,
                  !.result = ProfilesUpdateResult(uid, id, role)]
    /\ UNCHANGED <<worker_profiles, availability_calendar, bookings, now, detail,
                   form, messages, chat, reviews, direct_messages, dchat, user_roles,
                   rlist, objects, mview>>

(* an insert, update or delete on user_roles sent by uid: kind names it,
   row is the row to insert, or to write over or remove the rows of its
   user_id: an insert breaks the policy, the others find no row *)
UserRolesWrite(uid, kind, row) ==
    /\ profiles[uid] # NULL
    /\ user_roles' =
          IF ~UserRolesWritePolicy(uid, row) THEN user_roles
          ELSE IF kind = "delete" THEN {r \in user_roles : r.user_id # row.user_id}
          ELSE {r \in user_roles : kind = "insert" \/ r.user_id # row.user_id}
                  \cup {row}
    /\ last' = [NoRequest EXCEPT
                  !.op = "roles_" \o kind, !.uid = uid, !.column = row.user_id,
                  !.from = GetUserRole(row.user_id), !.to = row.role,
                  !.result = IF UserRolesWritePolicy(uid, row) THEN "written"
                             ELSE IF kind = "insert" THEN "rls_violation"
                             ELSE "no_rows"]
    /\ UNCHANGED <<worker_profiles, availability_calendar, bookings, now, detail,
                   form, messages, chat, reviews, direct_messages, dchat, profiles,
                   rlist, objects, mview>>

----------------------------------------------------------------------------
(* Specifications *)

(* the rows a client sends to create a booking *)
BookingRows ==
    [hirer_id : Users, worker_id : WorkerIds, status : {"pending"},
     agreed_rate : RateInputs, booking_date : {1}, duration_hours : {<<>>}]

InsertRequests == \E uid \in Users, row \in BookingRows : BookingsInsert(uid, row)

StatusRequests ==
    \E uid \in Users, id \in BookingIds, value \in StatusInputs :
       BookingsUpdate(uid, id, "status", value)

RateRequests ==
    \E uid \in Users, id \in BookingIds, value \in RateInputs :
       BookingsUpdate(uid, id, "agreed_rate", value)

PageLoads ==
    \E t \in Tabs, uid \in Users, id \in BookingIds : OpenBookingDetail(t, uid, id)

ButtonClicks ==
    \E t \in Tabs, newStatus \in {"confirmed", "cancelled", "completed"} :
       HandleStatusUpdate(t, newStatus)

(* the requests the policies of bookings decide, from any client *)
NextPolicy == InsertRequests \/ StatusRequests \/ RateRequests

SpecPolicy == Init /\ [][NextPolicy]_vars

(* bookings and the BookingDetail pages of two browser tabs *)
NextPages == InsertRequests \/ PageLoads \/ ButtonClicks

SpecPages == Init /\ [][NextPages]_vars

AvailabilityChanges ==
    \E uid \in Users, date \in Dates, status \in AvailabilityStatuses :
       HandleSetAvailability(uid, "wp1", date, status)

FormOpens == \E uid \in {"hirer1"} : OpenBookingForm(uid, "wp1")

DateSelections == \E day \in Dates : SelectDate(day)

(* the calendar of the booking form, while the worker edits the
   availability and time passes *)
NextCalendar ==
    AvailabilityChanges \/ Tick \/ FormOpens \/ LoadAvailability \/ DateSelections

SpecCalendar == Init /\ [][NextCalendar]_vars

Submits ==
    \/ \E descriptionValid \in BOOLEAN, failed \in BOOLEAN :
          HandleSubmitLookup(descriptionValid, failed)
    \/ HandleSubmitInsert

(* booking a date while the worker edits the availability *)
NextAvailability ==
    AvailabilityChanges \/ FormOpens \/ DateSelections \/ Submits

SpecAvailability == Init /\ [][NextAvailability]_vars

HourlyRateInputs == {100, 200}
DailyRateInputs == {<<>>, <<0>>, <<500>>}
DurationInputs == {0, 4, 25}

RateChanges ==
    \/ \E uid \in Users, value \in HourlyRateInputs :
          WorkerProfilesUpdate(uid, "wp1", "hourly_rate", value)
    \/ \E uid \in Users, value \in DailyRateInputs :
          WorkerProfilesUpdate(uid, "wp1", "daily_rate", value)

(* booking a worker who changes the rates *)
NextRates ==
    \/ RateChanges
    \/ FormOpens
    \/ \E day \in {now.day} : SelectDate(day)
    \/ \E durationHours \in DurationInputs : SetDuration(durationHours)
    \/ Submits

SpecRates == Init /\ [][NextRates]_vars

PartyRequests ==
    \/ \E uid \in Users, id \in BookingIds, value \in Users :
          BookingsUpdate(uid, id, "hirer_id", value)
    \/ \E uid \in Users, id \in BookingIds, value \in WorkerIds :
          BookingsUpdate(uid, id, "worker_id", value)

MessageRequests ==
    \E uid \in Users, sender \in Users, id \in BookingIds :
       MessagesInsert(uid, [booking_id |-> id, sender_id |-> sender])

MessageLoads == \E uid \in Users, id \in BookingIds : LoadMessages(uid, id)

(* the messages of bookings whose rows their parties may rewrite *)
NextMessages == InsertRequests \/ PartyRequests \/ MessageRequests \/ MessageLoads

SpecMessages == Init /\ [][NextMessages]_vars

(* bookings created at one rate *)
PlainInsertRequests ==
    \E uid \in Users, row \in {r \in BookingRows : r.agreed_rate = 100} :
       BookingsInsert(uid, row)

(* sending messages in bookings whose parties change *)
NextSend == PlainInsertRequests \/ PartyRequests \/ MessageRequests

SpecSend == Init /\ [][NextSend]_vars

(* a booking of hirer1 with wp1 *)
OneBookingRequests ==
    \E row \in {r \in BookingRows : r.agreed_rate = 100 /\ r.worker_id = "wp1"
                                      /\ r.hirer_id = "hirer1"} :
       BookingsInsert("hirer1", row)

(* the rows handleSendMessage sends: booking, sender and content *)
SentMessages ==
    \E uid \in Users, id \in BookingIds :
       MessagesInsert(uid, [booking_id |-> id, sender_id |-> uid, content |-> "hello"])

(* updates and deletes of stored messages that clients may send *)
MessageWrites ==
    \/ \E uid \in Users, m \in DOMAIN messages :
          \/ MessagesUpdate(uid, m, "content", "edited")
          \/ \E sender \in Users : MessagesUpdate(uid, m, "sender_id", sender)
          \/ MessagesUpdate(uid, m, "booking_id", 0)
    \/ \E uid \in Users, m \in DOMAIN messages : MessagesDelete(uid, m)

(* messages are sent, and clients try to rewrite and remove them *)
NextAppend == OneBookingRequests \/ SentMessages \/ MessageWrites

SpecAppend == Init /\ [][NextAppend]_vars

ViewSteps ==
    \/ \E uid \in {"hirer1", "worker1"}, id \in BookingIds : MountMessages(uid, id)
    \/ ChannelSubscribed
    \/ AnswerSelect
    \/ \E data \in SUBSET (1..MaxMessages) : ReceiveAnswer(data)

(* a party keeps the messages of a booking open while messages are sent *)
NextView == OneBookingRequests \/ SentMessages \/ ViewSteps

(* the channel gets subscribed, selects are answered and answers arrive *)
SpecView ==
    /\ Init /\ [][NextView]_vars
    /\ WF_vars(ChannelSubscribed)
    /\ WF_vars(AnswerSelect)
    /\ WF_vars(\E data \in SUBSET (1..MaxMessages) : ReceiveAnswer(data))

(* what a client may send as a rating: one the CHECK refuses and one it
   admits *)
RatingInputs == {0, 5}

ReviewRequests ==
    \E uid \in Users, id \in BookingIds, hirer \in Users, w \in WorkerIds,
       rating \in RatingInputs :
       ReviewsInsert(uid, [booking_id |-> id, hirer_id |-> hirer, worker_id |-> w,
                           rating |-> rating])

(* bookings of one worker, and the status updates that carry them forward
   and back *)
ReviewedBookingRequests ==
    \/ \E uid \in Users, row \in {r \in BookingRows :
                                    r.agreed_rate = 100 /\ r.worker_id = "wp1"} :
          BookingsInsert(uid, row)
    \/ \E uid \in Users, id \in BookingIds, value \in {"confirmed", "completed"} :
          BookingsUpdate(uid, id, "status", value)

(* the requests the policy of reviews decides, on bookings of any status *)
NextReviews == ReviewedBookingRequests \/ ReviewRequests

SpecReviews == Init /\ [][NextReviews]_vars

ReviewSubmits ==
    \E t \in Tabs, rating \in RatingInputs : ReviewFormSubmit(t, rating)

(* a booking carried to completed and reviewed through BookingDetail pages *)
NextReviewPages == PlainInsertRequests \/ PageLoads \/ ButtonClicks \/ ReviewSubmits

SpecReviewPages == Init /\ [][NextReviewPages]_vars

(* the two principals who chat *)
ChatUsers == {"hirer1", "worker1"}

DirectSends ==
    \E uid \in ChatUsers, sender \in ChatUsers, receiver \in ChatUsers :
       DirectMessagesInsert(uid, [sender_id |-> sender, receiver_id |-> receiver,
                                  read_at |-> <<>>])

DirectLoads ==
    \/ \E t \in Tabs, uid \in ChatUsers, other \in ChatUsers :
          LoadDirectMessages(t, uid, other)
    \/ \E t \in Tabs : MarkMessagesRead(t)

(* read_at as any client may ask to set it *)
DirectUpdateRequests ==
    \E uid \in ChatUsers, m \in DOMAIN direct_messages, value \in {<<>>, <<now>>} :
       DirectMessagesUpdate(uid, {m}, value)

(* direct messages while both principals have the chat open *)
NextDirect == DirectSends \/ DirectLoads \/ DirectUpdateRequests \/ Tick

SpecDirect == Init /\ [][NextDirect]_vars

(* the names Date.now() and the extension give a file *)
FileNames == {"1.png", "2.png"}

FileSends ==
    \E uid \in ChatUsers, other \in ChatUsers, file \in FileNames :
       HandleSendFile(uid, other, file)

(* requests of any principal on the folders of the two who chat *)
StorageRequests ==
    \/ \E uid \in Users, folder \in ChatUsers, file \in FileNames :
          StorageUpload(uid, folder, file)
    \/ \E uid \in Users, folder \in ChatUsers, file \in FileNames :
          StorageRemove(uid, folder, file)
    \/ \E uid \in Users, folder \in ChatUsers, file \in FileNames :
          StorageDownload(uid, folder, file)

(* files sent in direct chats, and what clients may ask of the bucket *)
NextFiles == FileSends \/ StorageRequests

SpecFiles == Init /\ [][NextFiles]_vars

(* the worker's page writes the status while the hirer, to whom the page
   gives no button, sends status updates of its own *)
NextStatus ==
    \/ \E row \in {r \in BookingRows : r.agreed_rate = 100 /\ r.worker_id = "wp1"
                                        /\ r.hirer_id = "hirer1"} :
          BookingsInsert("hirer1", row)
    \/ \E t \in Tabs, id \in BookingIds : OpenBookingDetail(t, "worker1", id)
    \/ ButtonClicks
    \/ \E id \in BookingIds, value \in StatusInputs :
          BookingsUpdate("hirer1", id, "status", value)

SpecStatus == Init /\ [][NextStatus]_vars

(* room for a second booking of the same worker and date *)
MaxDoubleBookings == MaxBookings + 1

(* the principals who book wp1 *)
Bookers == {"hirer1", "worker2"}

DoubleFormSteps ==
    \/ \E uid \in Bookers : OpenBookingForm(uid, "wp1")
    \/ DateSelections
    \/ \E descriptionValid \in BOOLEAN, failed \in BOOLEAN :
          HandleSubmitLookup(descriptionValid, failed)
    \/ HandleSubmitInsertUpTo(MaxDoubleBookings)

DoubleInsertRequests ==
    \E uid \in Bookers, row \in {r \in BookingRows :
                                    r.agreed_rate = 100 /\ r.worker_id = "wp1"} :
       BookingsInsertUpTo(MaxDoubleBookings, uid, row)

(* two principals book the same worker, through the form and directly *)
NextDouble == DoubleFormSteps \/ DoubleInsertRequests

SpecDouble == Init /\ [][NextDouble]_vars

(* ratings of the reviews a worker collects *)
RatingValues == {3, 4, 5}

(* a booking of hirer1 carried to completed, and hirer1's reviews on it for
   either worker: the policy does not compare worker_id with the booking *)
RatedReviews ==
    \/ \E row \in {r \in BookingRows : r.agreed_rate = 100 /\ r.worker_id = "wp1"
                                        /\ r.hirer_id = "hirer1" /\ r.booking_date = 1} :
          BookingsInsert("hirer1", row)
    \/ \E uid \in {"hirer1", "worker1"}, id \in BookingIds,
          value \in {"confirmed", "completed"} :
          BookingsUpdate(uid, id, "status", value)
    \/ \E id \in BookingIds, w \in WorkerIds, rating \in RatingValues :
          ReviewsInsert("hirer1", [booking_id |-> id, hirer_id |-> "hirer1",
                                   worker_id |-> w, rating |-> rating])

ListLoads ==
    \/ \E t \in Tabs, w \in WorkerIds : MountReviewsList(t, w)
    \/ \E t \in Tabs, w \in WorkerIds : ChangeWorkerId(t, w)

(* reviews are collected while ReviewsList components show them *)
NextRatings == RatedReviews \/ ListLoads

SpecRatings == Init /\ [][NextRatings]_vars

ReviewUpdateRequests ==
    \/ \E uid \in Users, r \in DOMAIN reviews, w \in WorkerIds :
          ReviewsUpdate(uid, r, "worker_id", w)
    \/ \E uid \in Users, r \in DOMAIN reviews, rating \in RatingInputs :
          ReviewsUpdate(uid, r, "rating", rating)

(* reviews of hirer1's completed booking, inserted and rewritten *)
NextAttribution == RatedReviews \/ ReviewUpdateRequests

SpecAttribution == Init /\ [][NextAttribution]_vars

(* the role hints a signup may carry: none, the two roles, and one that is
   no role *)
RoleHints == {NULL, "hirer", "worker", "admin"}

SignUps == \E id \in NewUsers, hint \in RoleHints : SignUp(id, hint)

RoleRequests ==
    \/ \E uid \in Principals, id \in Principals, role \in AppRoles \cup {"admin"} :
          ProfilesUpdate(uid, id, role)
    \/ \E uid \in Principals, kind \in {"insert", "update", "delete"},
          id \in Principals, role \in AppRoles :
          UserRolesWrite(uid, kind, [user_id |-> id, role |-> role])

(* signups, and what clients may ask of profiles.role and user_roles *)
NextRoles == SignUps \/ RoleRequests

SpecRoles == Init /\ [][NextRoles]_vars

----------------------------------------------------------------------------
(* The lifecycle as the specification states it *)

Terminal == {"completed", "cancelled"}
NonTerminal == {"pending", "confirmed"}

(* the rows of the transition table for an existing booking: from, to, and
   what the actor is to the booking *)
TableAllows(from, to, asHirer, asWorker) ==
    \/ from = "pending" /\ to = "confirmed" /\ asWorker
    \/ from = "pending" /\ to = "cancelled" /\ asWorker
    \/ from = "confirmed" /\ to = "completed" /\ asWorker
    \/ from \in NonTerminal /\ to = "cancelled" /\ (asHirer \/ asWorker)

IsStatusRequest == last.op = "update" /\ last.column = "status"

(* C1: a status update that asks for another status than the stored one, and
   whose (current status, requested status, actor) is no row of the
   transition table, fails, and the stored status stays what it was. *)
C1_TransitionClosure ==
    (/\ IsStatusRequest
     /\ last.to # last.from
     /\ ~TableAllows(last.from, last.to, last.asHirer, last.asWorker))
        => /\ last.result # "updated"
           /\ bookings[last.id].status = last.from

(* C2: completed and cancelled are terminal: once a booking's stored status
   is one of them, no step changes it. *)
C2_TerminalIsFinal ==
    [][\A id \in BookingIds :
          bookings[id].status \in Terminal
              => bookings'[id].status = bookings[id].status]_vars

(* C3: the status becomes confirmed only by the booking's own worker and
   only from pending; it becomes completed only by the booking's own worker
   and only from confirmed. *)
C3_WorkerOnlyAcceptsAndCompletes ==
    [][\A id \in BookingIds :
          /\ (bookings'[id].status = "confirmed" /\ bookings[id].status # "confirmed")
                => /\ bookings[id].status = "pending"
                   /\ last'.id = id /\ last'.asWorker
          /\ (bookings'[id].status = "completed" /\ bookings[id].status # "completed")
                => /\ bookings[id].status = "confirmed"
                   /\ last'.id = id /\ last'.asWorker]_vars

(* C4: a status write sent from a page takes effect, changing the stored
   status, only if the stored status at write time is the status that page
   had read. *)
C4_ConditionalWrite ==
    (/\ IsStatusRequest
     /\ last.read # NULL
     /\ last.result = "updated"
     /\ last.to # last.from)
        => last.from = last.read

(* C5: from pending or confirmed, the booking's hirer and the booking's
   worker can each move it to cancelled: such a request is always written. *)
C5_EitherPartyCancels ==
    /\ \A id \in BookingIds, uid \in Users :
          (/\ bookings[id].status \in NonTerminal
           /\ \/ uid = bookings[id].hirer_id
              \/ uid = worker_profiles[bookings[id].worker_id].user_id)
            => /\ BookingsUpdateResult(uid, id, "status", "cancelled") = "updated"
               /\ BookingsAfterUpdate(uid, id, "status", "cancelled")[id].status
                    = "cancelled"
    /\ (/\ IsStatusRequest
        /\ last.to = "cancelled"
        /\ last.from \in NonTerminal
        /\ (last.asHirer \/ last.asWorker))
          => (last.result = "updated" /\ bookings[last.id].status = "cancelled")

(* the hirer has cancelled a confirmed booking *)
C5_Witness ==
    /\ IsStatusRequest
    /\ last.from = "confirmed"
    /\ last.to = "cancelled"
    /\ last.asHirer /\ ~last.asWorker
    /\ last.result = "updated"
    /\ bookings[last.id].status = "cancelled"

(* C7: the agreed rate of a booking is fixed at creation: no step changes
   the agreed_rate of a stored booking. *)
C7_AgreedRateImmutable ==
    [][\A id \in BookingIds :
          bookings'[id].agreed_rate = bookings[id].agreed_rate]_vars

----------------------------------------------------------------------------
(* Booking creation as the specification states it *)

IsFormInsert == last.op = "insert" /\ last.calc.viaForm /\ last.result = "inserted"

(* the rate as the claim words it: the daily rate whenever it is set *)
ClaimedRate(durationHours, hourly_rate, daily_rate) ==
    IF durationHours # 0 THEN durationHours * hourly_rate
    ELSE IF daily_rate # <<>> THEN daily_rate[1]
    ELSE hourly_rate * 8

(* the same with a daily rate of 0 counted as not set *)
AmendedRate(durationHours, hourly_rate, daily_rate) ==
    IF durationHours # 0 THEN durationHours * hourly_rate
    ELSE IF daily_rate # <<>> /\ daily_rate[1] # 0 THEN daily_rate[1]
    ELSE hourly_rate * 8

(* C6 as claimed: the agreed rate of a booking the form creates is
   duration * hourly rate for a nonzero duration, else the daily rate when
   it is set, else hourly rate * 8. *)
C6_AgreedRateAsClaimed ==
    IsFormInsert
        => bookings[last.id].agreed_rate =
             ClaimedRate(last.calc.durationHours, last.calc.hourly_rate,
                         last.calc.daily_rate)

(* C6 amended: the agreed rate of a booking the form creates is duration *
   hourly rate for a nonzero duration, else the daily rate when it is set
   and not 0, else hourly rate * 8 (the rates being those the form loaded). *)
C6_AgreedRate ==
    IsFormInsert
        => bookings[last.id].agreed_rate =
             AmendedRate(last.calc.durationHours, last.calc.hourly_rate,
                         last.calc.daily_rate)

(* a full-day booking of a worker whose daily rate is 0, at 8 hourly rates *)
C6_Witness ==
    /\ IsFormInsert
    /\ last.calc.durationHours = 0
    /\ last.calc.daily_rate = <<0>>
    /\ bookings[last.id].agreed_rate = last.calc.hourly_rate * 8
    /\ bookings[last.id].agreed_rate > 0

(* the status of the record the check reads for a day, "none" without one *)
RecordOf(availability, day) ==
    IF \E a \in availability : a.date = day
    THEN (CHOOSE a \in availability : a.date = day).status
    ELSE "none"

(* C8: the eligibility check rejects a day strictly before the current day
   whatever the record; else it accepts a day with no record or with an
   available record, and rejects one with an unavailable or holiday record. *)
C8_AvailabilityEligibility ==
    form.pc # "closed" =>
        \A day \in Dates :
            IsDateBookable(form.availability, Midnight(day)) =
                LET record == RecordOf(form.availability, day)
                IN  CASE day < now.day -> FALSE
                      [] day >= now.day /\ record = "none" -> TRUE
                      [] day >= now.day /\ record = "available" -> TRUE
                      [] day >= now.day /\ record \in {"unavailable", "holiday"} -> FALSE

(* at noon of day 2 the form lists day 1 as available and the check rejects
   it as past; today, which the check accepted when it was selected, the
   reloaded list shows as a holiday and the check rejects it *)
C8_Witness ==
    /\ form.pc = "idle"
    /\ now = [day |-> 2, hour |-> 12]
    /\ RecordOf(form.availability, 1) = "available"
    /\ ~IsDateBookable(form.availability, Midnight(1))
    /\ form.bookingDate = <<2>>
    /\ RecordOf(form.availability, 2) = "holiday"
    /\ ~IsDateBookable(form.availability, Midnight(2))

(* C9: a submission whose date the stored record made unavailable or a
   holiday by the time of the commit-time lookup creates no booking. *)
C9_CommitTimeRecheck ==
    IsFormInsert => last.calc.stored \notin {"unavailable", "holiday"}

----------------------------------------------------------------------------
(* Messaging visibility as the specification states it *)

IsPartyOf(uid, id) ==
    \/ uid = bookings[id].hirer_id
    \/ uid = worker_profiles[bookings[id].worker_id].user_id

(* C10: a principal who is neither the hirer nor the worker of a booking
   reads none of its messages; its hirer and its worker read them all. *)
C10_MessagingVisibility ==
    \A id \in BookingIds, uid \in Users :
        /\ ~IsPartyOf(uid, id) => MessagesSelect(uid, id) = {}
        /\ IsPartyOf(uid, id)
             => MessagesSelect(uid, id) =
                  {m \in DOMAIN messages : messages[m].booking_id = id}

(* C11: an insert into messages succeeds exactly when its sender_id is the
   inserting principal and that principal is the hirer or the worker of the
   referenced booking; any other insert fails, and what is stored was sent
   by its sender as a party. *)
C11_MessageInsertGuard ==
    last.op = "message"
        => /\ last.result = "inserted"
                <=> (last.to = last.uid /\ (last.asHirer \/ last.asWorker))
           /\ last.result = "inserted"
                => messages[Len(messages)] =
                     [booking_id |-> last.id, sender_id |-> last.uid]
           /\ last.result # "inserted"
                => \/ last.to # last.uid
                   \/ ~IsPartyOf(last.uid, last.id)

(* a party's insert attributed to the other party has been rejected, with a
   message of the booking already stored *)
C11_Witness ==
    /\ last.op = "message"
    /\ last.result = "rls_violation"
    /\ (last.asHirer \/ last.asWorker)
    /\ last.to # last.uid
    /\ IsPartyOf(last.to, last.id)
    /\ \E m \in DOMAIN messages : messages[m].booking_id = last.id

----------------------------------------------------------------------------
(* Reviews as the specification states them *)

(* C12: an insert into reviews succeeds only if the inserting principal is
   the hirer of the referenced booking, writing as itself, and the booking's
   stored status is completed: for a pending or confirmed booking it fails,
   and by anyone but the booking's hirer it fails as a policy violation. *)
C12_ReviewGating ==
    last.op = "review"
        => /\ last.result = "inserted"
                => /\ last.asHirer
                   /\ last.to = last.uid
                   /\ bookings[last.id].status = "completed"
                   /\ reviews[Len(reviews)].booking_id = last.id
                   /\ reviews[Len(reviews)].hirer_id = last.uid
           /\ bookings[last.id].status \in {"pending", "confirmed"}
                => last.result = "rls_violation"
           /\ ~last.asHirer => last.result = "rls_violation"

(* with a review of the booking stored, the hirer's insert for the booking,
   since moved back to confirmed, has been rejected *)
C12_Witness ==
    /\ last.op = "review"
    /\ last.asHirer /\ last.to = last.uid
    /\ bookings[last.id].status = "confirmed"
    /\ last.result = "rls_violation"
    /\ \E r \in DOMAIN reviews : reviews[r].booking_id = last.id

(* C13: in every reachable state there is at most one review per booking. *)
C13_OneReviewPerBooking ==
    \A id \in BookingIds :
        Cardinality({r \in DOMAIN reviews : reviews[r].booking_id = id}) <= 1

----------------------------------------------------------------------------
(* Read receipts as the specification states them *)

(* C14: read_at of a direct message is set by its receiver: once the
   receiver's loadMessages has marked a message read, the message carries a
   read_at, the time of the first such marking. *)
C14_ReceiverSetsReadAt ==
    \A t \in Tabs :
        dchat[t].pc = "done"
            => \A m \in dchat[t].unread : direct_messages[m].read_at # <<>>

(* C15: when the mark-read step has run twice for a message, read_at is the
   value the first run set. *)
C15_MarkReadIdempotent ==
    \A a \in Tabs, b \in Tabs :
        (/\ a # b
         /\ dchat[a].pc = "done" /\ dchat[b].pc = "done"
         /\ dchat[a].markedAt # <<>> /\ dchat[b].markedAt # <<>>
         /\ ~Before(dchat[b].markedAt[1], dchat[a].markedAt[1]))
            => \A m \in dchat[a].unread \cap dchat[b].unread :
                   direct_messages[m].read_at = dchat[a].markedAt

----------------------------------------------------------------------------
(* Roles as the specification states them *)

(* C16: the role of a registered principal never changes: no step changes
   its profiles.role or its user_roles rows, a profile update that names
   another role is rejected, and no write on user_roles is accepted. *)
C16_RoleImmutable ==
    [][/\ \A u \in Principals :
             profiles[u] # NULL
                => /\ profiles'[u] = profiles[u]
                   /\ {r \in user_roles' : r.user_id = u}
                         = {r \in user_roles : r.user_id = u}
       /\ (last'.op = "profile_update" /\ last'.to # last'.from)
             => last'.result # "updated"
       /\ last'.op \in {"roles_insert", "roles_update", "roles_delete"}
             => (last'.result \in {"rls_violation", "no_rows"} /\ user_roles' = user_roles)
      ]_vars

(* a principal who signed up as hirer has asked for the role worker on the
   own profile and has been refused *)
C16_Witness ==
    /\ last.op = "profile_update"
    /\ last.uid \in NewUsers
    /\ last.column = last.uid
    /\ last.from = "hirer" /\ last.to = "worker"
    /\ last.result = "rls_violation"
    /\ profiles[last.uid] = "hirer"
    /\ GetUserRole(last.uid) = "hirer"

(* C17: a signup whose role hint is omitted or is no valid role completes
   and yields a principal with role hirer. *)
C17_SignupDefaultsToHirer ==
    (last.op = "signup" /\ last.to \notin AppRoles)
        => /\ last.result = "created"
           /\ profiles[last.uid] = "hirer"
           /\ GetUserRole(last.uid) = "hirer"

----------------------------------------------------------------------------
(* The aggregate rating as the specification states it *)

(* the mean of the ratings of a worker's reviews in tenths, rounded to the
   nearest tenth, and nothing for a worker without reviews *)
ClaimedRating(table, workerId) ==
    LET data == SelectSeq(table, LAMBDA r : r.worker_id = workerId)
    IN  IF Len(data) = 0 THEN <<>>
        ELSE <<CHOOSE q \in 0..(10 * MaxRating) :
                 /\ 2 * Len(data) * q <= 20 * SumRatings(data) + Len(data)
                 /\ 2 * Len(data) * (q + 1) > 20 * SumRatings(data) + Len(data)>>

(* C18: whenever a ReviewsList has loaded the reviews of a worker, it
   reports the mean of that worker's ratings rounded to one decimal, and
   no rating for a worker without reviews. *)
C18_AggregateRating ==
    [][\A t \in Tabs :
          rlist'[t] # rlist[t]
             => ReportedRating(rlist'[t]) = ClaimedRating(reviews', rlist'[t].workerId)
      ]_vars

----------------------------------------------------------------------------
(* Double booking as the specification states it *)

(* C19: a booking creation is never rejected because the worker already has
   a booking on that date: an insert fails only on a CHECK or on the
   policy, an insert of the booking form that passed its availability
   check is stored, and every accepted insert adds a row. *)
C19_DoubleBookingAccepted ==
    [][(last' # last /\ last'.op = "insert")
          => /\ last'.result # "inserted"
                   => last'.result \in {"check_violation", "rls_violation"}
             /\ last'.calc.viaForm => last'.result = "inserted"
             /\ last'.result = "inserted" => Len(bookings') = Len(bookings) + 1
      ]_vars

(* two bookings of two hirers for the same worker and date are stored, the
   second created by the booking form after its availability check *)
C19_Witness ==
    /\ Len(bookings) = 2
    /\ bookings[1].worker_id = bookings[2].worker_id
    /\ bookings[1].booking_date = bookings[2].booking_date
    /\ bookings[1].hirer_id # bookings[2].hirer_id
    /\ IsFormInsert /\ last.id = 2

----------------------------------------------------------------------------
(* Concurrent status writes as the specification states them *)

(* C20: every status write is one whole write: when it is answered as done
   the stored status is its target, whatever the sender's page had read
   and whatever the other party wrote in between, else the stored status
   is as before; a party's write of an allowed status is always done.  After two writes the status is therefore the target of the later
   one. *)
C20_LastWriteWins ==
    [][(last' # last /\ last'.op = "update" /\ last'.column = "status")
          => /\ bookings'[last'.id].status =
                   IF last'.result = "updated" THEN last'.to
                   ELSE bookings[last'.id].status
             /\ ((last'.asHirer \/ last'.asWorker) /\ last'.to \in BookingStatuses)
                   => last'.result = "updated"
      ]_vars

(* the worker's page had read pending, the hirer cancelled in between, and
   the worker's Accept is what is stored *)
C20_Witness ==
    /\ last.op = "update" /\ last.column = "status"
    /\ last.asWorker /\ ~last.asHirer
    /\ last.read = "pending" /\ last.from = "cancelled" /\ last.to = "confirmed"
    /\ last.result = "updated"
    /\ bookings[last.id].status = "confirmed"

----------------------------------------------------------------------------
(* Append-only messages as the specification states them *)

(* C21: no step changes or removes a stored message: every message keeps
   its content, its sender and its booking, and the stored messages of a
   booking only grow. *)
C21_MessagesAppendOnly ==
    [][/\ Len(messages') >= Len(messages)
       /\ \A m \in DOMAIN messages : messages'[m] = messages[m]
       /\ last'.op \in {"message_update", "message_delete"}
             => last'.result = "no_rows"
      ]_vars

(* the sender of a stored message has asked to delete it and nothing was
   removed *)
C21_Witness ==
    /\ last.op = "message_delete"
    /\ last.id \in DOMAIN messages
    /\ last.uid = messages[last.id].sender_id
    /\ last.result = "no_rows"
    /\ messages[last.id].content = "hello"

----------------------------------------------------------------------------
(* Who creates bookings, as the specification states it *)

(* C22: the hirer_id of every stored booking is a principal whose role is
   hirer; a principal whose role is worker creates no booking. *)
C22_HirerCreatesBookings ==
    /\ \A id \in BookingIds : GetUserRole(bookings[id].hirer_id) = "hirer"
    /\ (last.op = "insert" /\ GetUserRole(last.uid) = "worker")
          => last.result # "inserted"

----------------------------------------------------------------------------
(* The stored rating as the specification states it *)

(* C23: the stored rating of a worker who has reviews is the mean of the
   ratings of those reviews, to the hundredth the column holds. *)
C23_StoredRatingIsMean ==
    \A w \in WorkerIds :
       LET data == SelectSeq(reviews, LAMBDA r : r.worker_id = w)
           diff == 100 * SumRatings(data) - worker_profiles[w].rating * Len(data)
       IN  Len(data) > 0 => (2 * diff <= Len(data) /\ -2 * diff <= Len(data))

----------------------------------------------------------------------------
(* Chat files as the specification states them *)

(* the users involved in the chat a file belongs to: its uploader and the
   receivers of the messages that carry it *)
InvolvedIn(folder, file) ==
    {folder} \cup
    {direct_messages[m].receiver_id :
        m \in {n \in DOMAIN direct_messages :
                 /\ direct_messages[n].file_url # <<>>
                 /\ direct_messages[n].file_url[1].folder = folder
                 /\ direct_messages[n].file_url[1].file = file}}

(* C24: a chat file is read only by the users involved in its chat. *)
C24_ChatFileReaders ==
    (last.op = "download" /\ last.result = "read")
        => last.uid \in InvolvedIn(last.column, last.to)

(* C25: an object is created or removed only under the folder named by the
   acting principal, and every file a DirectChat message carries is stored
   under its sender's identifier. *)
C25_OwnPathPrefix ==
    [][/\ \A o \in objects' \ objects : last'.op = "upload" /\ o.folder = last'.uid
       /\ \A o \in objects \ objects' : last'.op = "remove" /\ o.folder = last'.uid
       /\ (last'.op \in {"upload", "remove"} /\ last'.column # last'.uid)
             => last'.result \in {"rls_violation", "no_rows"}
       /\ \A m \in DOMAIN direct_messages' :
             direct_messages'[m].file_url # <<>>
                => direct_messages'[m].file_url[1].folder = direct_messages'[m].sender_id
      ]_vars

(* a principal has asked to remove a file that another principal sent in a
   chat, and the file is still stored *)
C25_Witness ==
    /\ last.op = "remove"
    /\ last.column # last.uid
    /\ last.result = "no_rows"
    /\ [bucket_id |-> "chat-files", folder |-> last.column, file |-> last.to] \in objects
    /\ \E m \in DOMAIN direct_messages :
          /\ direct_messages[m].file_url # <<>>
          /\ direct_messages[m].file_url[1].folder = last.column
          /\ direct_messages[m].file_url[1].file = last.to

----------------------------------------------------------------------------
(* The failed availability lookup as the specification states it *)

(* C26: the booking form inserts a booking only after a lookup that was
   answered, with no record or with a record of status available; a
   lookup that failed creates no booking. *)
C26_FailedLookupBlocks ==
    IsFormInsert
        => /\ ~last.calc.lookupFailed
           /\ last.calc.stored \in {"none", "available"}

----------------------------------------------------------------------------
(* Reviewed bookings as the specification states them *)

(* C27: every stored review refers to a booking whose status is
   completed. *)
C27_ReviewedStaysCompleted ==
    \A r \in DOMAIN reviews :
       /\ reviews[r].booking_id \in BookingIds
       /\ bookings[reviews[r].booking_id].status = "completed"

----------------------------------------------------------------------------
(* The worker of a review as the specification states it *)

(* C28: the worker_id of every stored review is the worker of the booking
   the review refers to. *)
C28_ReviewNamesBookedWorker ==
    \A r \in DOMAIN reviews :
       /\ reviews[r].booking_id \in BookingIds
       /\ reviews[r].worker_id = bookings[reviews[r].booking_id].worker_id

----------------------------------------------------------------------------
(* The message view as the specification states it *)

(* C29: a BookingMessages that stays open ends up showing the stored
   messages of its booking and keeps showing them once inserts stop. *)
C29_ViewCatchesUp ==
    <>[](mview.user # NULL
           => mview.shown = MessagesSelect(mview.user, mview.bookingId))

----------------------------------------------------------------------------
(* Unread direct messages as the specification states them *)

(* C30: once loadMessages of a receiver's DirectChat has completed, every
   message it fetched from the other user to the receiver has a read_at,
   and with no message of that sender arrived since, the receiver's unread
   count for the sender is 0. *)
C30_OpenedChatIsRead ==
    \A t \in Tabs :
       LET c == dchat[t]
           sent == {m \in DOMAIN direct_messages :
                      /\ direct_messages[m].sender_id = c.other
                      /\ direct_messages[m].receiver_id = c.user}
       IN  c.pc = "done"
              => /\ \A m \in c.messages \cap sent : direct_messages[m].read_at # <<>>
                 /\ sent \subseteq c.messages => UnreadCount(c.user, c.other) = 0

====
